---- MODULE Spec2Model ----
(***************************************************************************)
(* Lupa Saude Acessivel: the App component (camera acquisition ladder,     *)
(* capture / upload / analysis pipeline, local history, speech, settings   *)
(* and zoom) and the analysis and speech adapters of geminiService.        *)
(*                                                                         *)
(* Two revisions of the component are in the repository:                   *)
(*   rev = "app"    src/src/App.tsx                                        *)
(*   rev = "part2"  src/unnamed/part_002 (permission overlay, torch)       *)
(* Every handler is one action.  A handler that awaits is split at the     *)
(* await: the part before it is one action, the settlement of the awaited  *)
(* promise (with the rest of the handler) another.  Values a handler reads *)
(* from its render closure after an await (history in saveToHistory) are   *)
(* carried in the pending call's record.                                   *)
(***************************************************************************)
EXTENDS Integers, Sequences, FiniteSets, Bags, TLC

\* ---------------------------------------------------------------- bounds
\* startCamera invocations in one run
MaxCamCalls == 2
\* file choices plus camera captures in one run
MaxAnalyses == 2

\* ------------------------------------------------------------- constants
\* [newItem, ...history].slice(0, 10)
HistoryLimit == 10

Revs == {"app", "part2"}

\* ---------------------------------------------------------------- state
VARIABLES
    rev,              \* which revision of the component runs
    isSecureContext,  \* window.isSecureContext
    hasMediaDevices,  \* navigator.mediaDevices && navigator.mediaDevices.getUserMedia
    priorLen,         \* entries an earlier session of the app left in storage
    audioPolicy,      \* what new AudioContext() gives on this browser
    mounted,          \* the mount effect has run
    storage,          \* localStorage['lupa_history']
    history,          \* useState<HistoryItem[]>
    isFrozen,
    isProcessing,
    result,
    showHistory,
    cameraActive,
    cameraError,
    torchActive,
    hasTorch,
    needsPermission,
    streamRef,        \* streamRef.current: "null" or "stream"
    strayStreams,     \* live streams (tracks not stopped) streamRef no longer holds
    permQuery,        \* navigator.permissions.query promise of the mount effect
    cams,             \* startCamera invocations awaiting getUserMedia (a bag)
    pickerOpen,       \* the file chooser opened by fileInputRef.click()
    uploads,          \* handleFileUpload calls waiting for reader / image (a bag)
    tasks,            \* processImageContent calls awaiting the analysis (a bag)
    alert,            \* the blocking alert() on screen, with the call it belongs to
    nCam,             \* startCamera invocations so far
    nAnalyses,        \* file choices and captures so far
    clock,            \* Date.now(): one tick per saveToHistory
    settings,         \* useState<AppSettings>
    showSettings,
    audioCtx,         \* audioContextRef.current: "null", or the context's state
    speeches,         \* playAudio calls awaiting resume / generateSpeech (a bag)
    nSpeech,          \* playAudio calls so far
    playing           \* the buffers of the sources started, in order

camVars == <<cameraActive, cameraError, torchActive, hasTorch, needsPermission,
             streamRef, strayStreams, cams, nCam>>
envVars == <<rev, isSecureContext, hasMediaDevices, priorLen, audioPolicy>>
uiVars == <<settings, showSettings>>
speechVars == <<audioCtx, speeches, nSpeech, playing>>
docVars == <<storage, history, isFrozen, isProcessing, result, uploads, tasks,
             alert, nAnalyses, clock>>
vars == <<rev, isSecureContext, hasMediaDevices, priorLen, audioPolicy, settings,
          showSettings, audioCtx, speeches, nSpeech, playing, mounted, storage, history,
          isFrozen, isProcessing, result, showHistory, cameraActive,
          cameraError, torchActive, hasTorch, needsPermission, streamRef,
          strayStreams, permQuery, cams, pickerOpen, uploads, tasks, alert,
          nCam, nAnalyses, clock>>

\* ------------------------------------------------------- generic helpers
Min(a, b) == IF a < b THEN a ELSE b

\* Array.prototype.slice(0, n)
Slice0(s, n) == SubSeq(s, 1, Min(Len(s), n))

\* no alert() is on screen
NoAlert == "none"

BagAdd(b, e) == b (+) SetToBag({e})
BagDel(b, e) == b (-) SetToBag({e})

\* ---------------------------------------------------------- settings
\* fontSize: 28 of the initial settings, Math.max(20, ...), Math.min(60, ...)
\* and the step of the two buttons
FontInitial == 28
FontMin == 20
FontMax == 60
FontStep == 4

\* zoomLevel is kept in tenths: 1 is 10, 0.1 is 1, 5 is 50
ZoomScale == 10
\* min="1" max="5" step="0.1" of the range input, zoomLevel: 1 of the settings
ZoomMin == 1 * ZoomScale
ZoomMax == 5 * ZoomScale
ZoomStep == 1
ZoomInitial == 1 * ZoomScale

ContrastModes == {"normal", "dark", "yellow"}

InitialSettings ==
    [fontSize |-> FontInitial, contrastMode |-> "normal", audioEnabled |-> TRUE,
     zoomLevel |-> ZoomInitial]

\* the values a range input can hold: min + k * step, not above max
SliderValues ==
    {ZoomMin + k * ZoomStep : k \in 0..((ZoomMax - ZoomMin) \div ZoomStep)}

\* new (window.AudioContext || webkitAudioContext)(): the constructor is
\* missing, or the context starts suspended (autoplay policy) or running
AudioPolicies == {"no-context", "blocked", "allowed"}

\* ------------------------------------------------------------ camera
\* cameraError: null, or the message, kept as the hint it gives and the error
\* name interpolated into it
NoError == [hint |-> "null", name |-> ""]
InsecureError == [hint |-> "insecure", name |-> ""]
UnsupportedError == [hint |-> "unsupported", name |-> ""]

\* DOMException names getUserMedia rejects with; "" is an error without a name
ErrorNames == {"NotAllowedError", "PermissionDeniedError", "NotFoundError",
               "DevicesNotFoundError", "NotReadableError", "TrackStartError",
               "OverconstrainedError", ""}
\* names drawn for the rejections of the first and second attempt
EarlyErrorNames == {"OverconstrainedError", "NotAllowedError"}

\* fault: the message is chosen by the error caught first
ErrorHintFirst(err, name) ==
    LET errorName == IF err = "" THEN "UnknownError" ELSE err
    IN  IF errorName = "NotAllowedError" \/ errorName = "PermissionDeniedError"
        THEN [hint |-> "permission-denied", name |-> errorName]
        ELSE IF errorName = "NotFoundError" \/ errorName = "DevicesNotFoundError"
        THEN [hint |-> "camera-not-found", name |-> errorName]
        ELSE IF errorName = "NotReadableError" \/ errorName = "TrackStartError"
        THEN [hint |-> "camera-in-use", name |-> errorName]
        ELSE [hint |-> "technical-error", name |-> errorName]

\* the if / else-if chain of the innermost catch of startCamera; err is the
\* error of the outer catch, name the name of fallbackErr
ErrorHint(err, name) ==
    LET errorName == IF name = "" THEN "UnknownError" ELSE name
    IN  IF errorName = "NotAllowedError" \/ errorName = "PermissionDeniedError"
        THEN [hint |-> "permission-denied", name |-> errorName]
        ELSE IF errorName = "NotFoundError" \/ errorName = "DevicesNotFoundError"
        THEN [hint |-> "camera-not-found", name |-> errorName]
        ELSE IF errorName = "NotReadableError" \/ errorName = "TrackStartError"
        THEN [hint |-> "camera-in-use", name |-> errorName]
        ELSE [hint |-> "technical-error", name |-> errorName]

\* a pending startCamera: the attempt it awaits and the errors caught so far
CamCall(step, err, err2) == [step |-> step, err |-> err, err2 |-> err2]
NoName == "-"

\* videoRef.current: the <video> element is rendered only while cameraActive
VideoMounted == cameraActive

\* stopCamera followed by the synchronous part of startCamera, up to the first
\* getUserMedia call
StartCamera ==
    /\ nCam < MaxCamCalls
    /\ nCam' = nCam + 1
    /\ streamRef' = "null"
    /\ strayStreams' = strayStreams
    /\ cameraActive' = FALSE
    /\ torchActive' = FALSE
    /\ hasTorch' = FALSE
    /\ IF ~isSecureContext
       THEN /\ cameraError' = InsecureError
            /\ UNCHANGED <<needsPermission, cams>>
       ELSE IF ~hasMediaDevices
       THEN /\ cameraError' = UnsupportedError
            /\ needsPermission' = FALSE
            /\ cams' = cams
       ELSE /\ cameraError' = NoError
            /\ needsPermission' = FALSE
            /\ cams' = BagAdd(cams, CamCall(1, NoName, NoName))

\* a promise callback can run: the component is mounted and no alert() blocks
CanRun == mounted /\ alert = NoAlert
\* the user can touch the page
CanAct == CanRun /\ ~pickerOpen

\* fault: part_002 with the videoRef test of App.tsx around setCameraActive
AcquireApp(c) ==
    /\ streamRef' = "stream"
    /\ strayStreams' = IF streamRef = "stream" THEN strayStreams + 1 ELSE strayStreams
    /\ cameraActive' = VideoMounted
    /\ cams' = BagDel(cams, c)

\* what a resolved getUserMedia does in every try block: streamRef.current =
\* stream, then setCameraActive(true), in App.tsx only if videoRef.current
Acquire(c) ==
    /\ streamRef' = "stream"
    /\ strayStreams' = IF streamRef = "stream" THEN strayStreams + 1 ELSE strayStreams
    /\ cameraActive' = IF rev = "part2" THEN TRUE ELSE VideoMounted
    /\ cams' = BagDel(cams, c)

\* first attempt resolves; caps: what track.getCapabilities gives in part_002
Attempt1Resolved(c, caps) ==
    /\ CanRun
    /\ c \in BagToSet(cams) /\ c.step = 1
    /\ Acquire(c)
    /\ hasTorch' = IF rev = "part2" /\ caps # "absent" THEN caps = "torch" ELSE hasTorch
    /\ UNCHANGED <<cameraError, torchActive, needsPermission, nCam>>
    /\ UNCHANGED <<envVars, uiVars, speechVars, docVars, mounted, showHistory, permQuery, pickerOpen>>

\* fault: the first catch goes straight to the minimal constraints
Attempt1RejectedSkip(c, name) ==
    /\ CanRun
    /\ c \in BagToSet(cams) /\ c.step = 1
    /\ cams' = BagAdd(BagDel(cams, c), CamCall(3, name, NoName))
    /\ UNCHANGED <<cameraActive, cameraError, torchActive, hasTorch, needsPermission,
                   streamRef, strayStreams, nCam>>
    /\ UNCHANGED <<envVars, uiVars, speechVars, docVars, mounted, showHistory, permQuery, pickerOpen>>

\* first attempt rejects: the catch issues the second attempt
Attempt1Rejected(c, name) ==
    /\ CanRun
    /\ c \in BagToSet(cams) /\ c.step = 1
    /\ cams' = BagAdd(BagDel(cams, c), CamCall(2, name, NoName))
    /\ UNCHANGED <<cameraActive, cameraError, torchActive, hasTorch, needsPermission,
                   streamRef, strayStreams, nCam>>
    /\ UNCHANGED <<envVars, uiVars, speechVars, docVars, mounted, showHistory, permQuery, pickerOpen>>

\* second attempt resolves
Attempt2Resolved(c) ==
    /\ CanRun
    /\ c \in BagToSet(cams) /\ c.step = 2
    /\ Acquire(c)
    /\ UNCHANGED <<cameraError, torchActive, hasTorch, needsPermission, nCam>>
    /\ UNCHANGED <<envVars, uiVars, speechVars, docVars, mounted, showHistory, permQuery, pickerOpen>>

\* second attempt rejects: the catch issues the last attempt
Attempt2Rejected(c, name) ==
    /\ CanRun
    /\ c \in BagToSet(cams) /\ c.step = 2
    /\ cams' = BagAdd(BagDel(cams, c), CamCall(3, c.err, name))
    /\ UNCHANGED <<cameraActive, cameraError, torchActive, hasTorch, needsPermission,
                   streamRef, strayStreams, nCam>>
    /\ UNCHANGED <<envVars, uiVars, speechVars, docVars, mounted, showHistory, permQuery, pickerOpen>>

\* last attempt resolves
Attempt3Resolved(c) ==
    /\ CanRun
    /\ c \in BagToSet(cams) /\ c.step = 3
    /\ Acquire(c)
    /\ UNCHANGED <<cameraError, torchActive, hasTorch, needsPermission, nCam>>
    /\ UNCHANGED <<envVars, uiVars, speechVars, docVars, mounted, showHistory, permQuery, pickerOpen>>

\* last attempt rejects with an error named name: the message is chosen
Attempt3Rejected(c, name) ==
    /\ CanRun
    /\ c \in BagToSet(cams) /\ c.step = 3
    /\ cameraActive' = FALSE
    /\ cameraError' = ErrorHint(c.err, name)
    /\ cams' = BagDel(cams, c)
    /\ UNCHANGED <<torchActive, hasTorch, needsPermission, streamRef, strayStreams,
                   nCam>>
    /\ UNCHANGED <<envVars, uiVars, speechVars, docVars, mounted, showHistory, permQuery, pickerOpen>>

\* part_002: the permission query of the mount effect settles
PermissionGranted ==
    /\ CanRun
    /\ permQuery = "pending"
    /\ permQuery' = "settled"
    /\ StartCamera
    /\ UNCHANGED <<envVars, uiVars, speechVars, docVars, mounted, showHistory, pickerOpen>>

\* part_002: the query settles with a state other than 'granted'
PermissionNotGranted ==
    /\ CanRun
    /\ permQuery = "pending"
    /\ permQuery' = "settled"
    /\ UNCHANGED <<envVars, uiVars, speechVars, docVars, camVars, mounted, showHistory, pickerOpen>>

\* part_002: the button of the permission overlay
OverlayStart ==
    /\ CanAct
    /\ needsPermission
    /\ StartCamera
    /\ UNCHANGED <<envVars, uiVars, speechVars, docVars, mounted, showHistory, permQuery, pickerOpen>>

\* the permission overlay (z-100) and the history modal (z-50) cover the page
PageReachable == CanAct /\ ~needsPermission /\ ~showHistory /\ ~showSettings

\* "Tentar Novamente" of the camera-unavailable panel, under the result overlay
RetryCamera ==
    /\ PageReachable
    /\ ~cameraActive /\ cameraError # NoError /\ ~isFrozen
    /\ StartCamera
    /\ UNCHANGED <<envVars, uiVars, speechVars, docVars, mounted, showHistory, permQuery, pickerOpen>>

\* toggleTorch: applyConstraints resolves (ok) or rejects
ToggleTorch(ok) ==
    /\ PageReachable
    /\ hasTorch /\ ~isFrozen
    /\ streamRef # "null"
    /\ torchActive' = IF ok THEN ~torchActive ELSE torchActive
    /\ UNCHANGED <<cameraActive, cameraError, hasTorch, needsPermission, streamRef,
                   strayStreams, cams, nCam>>
    /\ UNCHANGED <<envVars, uiVars, speechVars, docVars, mounted, showHistory, permQuery, pickerOpen>>


\* ------------------------------------------------------- JSON and history
\* a JSON value: null, or an object as the function from its keys to its values
Null == [t |-> "null"]
Obj(f) == [t |-> "object", f |-> f]

\* documents the AI service answers with: all required fields, or only text
FullDoc == Obj([text |-> "t", medications |-> "array", summary |-> "s"])
PartialDoc == Obj([text |-> "t"])
Docs == {FullDoc, PartialDoc, Null}

\* { ...res }: the own properties of res; spreading null gives none
Spread(res) == IF res.t = "object" THEN res.f ELSE [k \in {} |-> ""]

\* key order of a serialized object
KeyOrder == <<"text", "medications", "summary", "id", "date">>

RECURSIVE Members(_, _)
\* the "key": value members of an object, in key order
Members(f, i) ==
    IF i > Len(KeyOrder) THEN <<>>
    ELSE IF KeyOrder[i] \in DOMAIN f
         THEN <<[key |-> KeyOrder[i], value |-> f[KeyOrder[i]]]>> \o Members(f, i + 1)
         ELSE Members(f, i + 1)

\* fault: the date member is not written
JSONStringifyNoDate(list) ==
    [i \in 1..Len(list) |-> Members([k \in DOMAIN list[i] \ {"date"} |-> list[i][k]], 1)]

\* JSON.stringify of the history array: one member list per item
JSONStringify(list) == [i \in 1..Len(list) |-> Members(list[i], 1)]

\* JSON.parse of one serialized object
ParseObject(ms) ==
    [k \in {ms[j].key : j \in 1..Len(ms)} |->
        (CHOOSE j \in 1..Len(ms) : ms[j].key = k) ]

ParseMembers(ms) ==
    LET at == ParseObject(ms) IN [k \in DOMAIN at |-> ms[at[k]].value]

\* JSON.parse of the stored history
JSONParse(text) == [i \in 1..Len(text) |-> ParseMembers(text[i])]

\* localStorage.getItem('lupa_history'): null, or the stored text
NoItem == [present |-> FALSE, text |-> <<>>]
Stored(text) == [present |-> TRUE, text |-> text]

\* newItem of saveToHistory
NewItem(res, now) == [id |-> now, date |-> now] @@ Spread(res)

\* fault: no slice
UpdatedKeepAll(res, hist, now) == <<NewItem(res, now)>> \o hist

\* fault: the new item goes last
UpdatedAppend(res, hist, now) == Slice0(hist \o <<NewItem(res, now)>>, HistoryLimit)

\* updated of saveToHistory; hist is the history of the closure
Updated(res, hist, now) == Slice0(<<NewItem(res, now)>> \o hist, HistoryLimit)

\* a list a previous session left in storage: k complete items, newest first
PriorList(k) == [i \in 1..k |-> NewItem(FullDoc, 1 - i)]

\* ------------------------------------------------- analyzeMedicalDocument
\* what generateContent does: it rejects, or resolves with a response that has
\* no text, text that is not JSON, or the JSON text of a document
Responses ==
    {[kind |-> "rejected", message |-> m, doc |-> Null] : m \in {"ApiError", ""}}
    \cup {[kind |-> "no-text", message |-> "", doc |-> Null]}
    \cup {[kind |-> "not-json", message |-> "", doc |-> Null]}
    \cup {[kind |-> "json", message |-> "", doc |-> d] : d \in Docs}

\* a complete document whose summary is the empty string
EmptySummaryDoc == Obj([text |-> "t", medications |-> "array", summary |-> ""])

SpeechResponses ==
    Responses \cup {[kind |-> "json", message |-> "", doc |-> EmptySummaryDoc]}

Return(value) == [ok |-> TRUE, value |-> value, message |-> ""]
Throw(message) == [ok |-> FALSE, value |-> Null, message |-> message]

\* fault: no test of response.text before the try block
AnalyzeWithoutTextCheck(resp) ==
    IF resp.kind = "rejected" THEN Throw(resp.message)
    ELSE IF resp.kind = "no-text" \/ resp.kind = "not-json" THEN Throw("failed-to-process")
    ELSE Return(resp.doc)

\* analyzeMedicalDocument, from the awaited generateContent on
AnalyzeMedicalDocument(resp) ==
    IF resp.kind = "rejected" THEN Throw(resp.message)
    ELSE IF resp.kind = "no-text" THEN Throw("no-valid-response")
    ELSE IF resp.kind = "not-json" THEN Throw("failed-to-process")
    ELSE Return(resp.doc)

\* error.message || JSON.stringify(error)
TechnicalDetails(message) == IF message # "" THEN message ELSE "{}"

\* ---------------------------------------- generateSpeech and decoding
\* a string is the sequence of its characters; the base64 alphabet in the
\* order of its values (the character at position i + 1 has the value i)
Base64Alphabet == <<
    "A", "B", "C", "D", "E", "F", "G", "H", "I", "J", "K", "L", "M", "N", "O", "P",
    "Q", "R", "S", "T", "U", "V", "W", "X", "Y", "Z", "a", "b", "c", "d", "e", "f",
    "g", "h", "i", "j", "k", "l", "m", "n", "o", "p", "q", "r", "s", "t", "u", "v",
    "w", "x", "y", "z", "0", "1", "2", "3", "4", "5", "6", "7", "8", "9", "+", "/">>

Base64Value(ch) == (CHOOSE i \in 1..Len(Base64Alphabet) : Base64Alphabet[i] = ch) - 1

\* the characters before the padding
StripPadding(str) ==
    IF Len(str) >= 2 /\ str[Len(str)] = "=" /\ str[Len(str) - 1] = "="
    THEN SubSeq(str, 1, Len(str) - 2)
    ELSE IF Len(str) >= 1 /\ str[Len(str)] = "="
    THEN SubSeq(str, 1, Len(str) - 1)
    ELSE str

\* atob can decode str: only alphabet characters before the padding, and a
\* length that is not one more than a multiple of four
AtobAccepts(str) ==
    LET data == StripPadding(str)
    IN  /\ \A i \in 1..Len(data) : \E j \in 1..Len(Base64Alphabet) : Base64Alphabet[j] = data[i]
        /\ Len(data) % 4 # 1
        /\ Len(str) # Len(data) => Len(str) % 4 = 0

RECURSIVE AtobGroups(_)
\* the character codes of the groups of four (at the end: two or three) values
AtobGroups(v) ==
    IF Len(v) < 2 THEN <<>>
    ELSE LET b1 == v[1] * 4 + v[2] \div 16
         IN  IF Len(v) = 2 THEN <<b1>>
             ELSE LET b2 == (v[2] % 16) * 16 + v[3] \div 4
                  IN  IF Len(v) = 3 THEN <<b1, b2>>
                      ELSE <<b1, b2, (v[3] % 4) * 64 + v[4]>>
                           \o AtobGroups(SubSeq(v, 5, Len(v)))

\* atob(base64): the binary string, as the sequence of its character codes
Atob(str) ==
    LET data == StripPadding(str)
    IN  AtobGroups([i \in 1..Len(data) |-> Base64Value(data[i])])

\* fault: the loop stops one character early
DecodeBase64Short(base64) ==
    LET binaryString == Atob(base64)
    IN  [i \in 1..(Len(binaryString) - 1) |-> binaryString[i] % 256]

\* decodeBase64: bytes[i] = binaryString.charCodeAt(i), stored in a Uint8Array
DecodeBase64(base64) ==
    LET binaryString == Atob(base64)
    IN  [i \in 1..Len(binaryString) |-> binaryString[i] % 256]

\* what the generateContent call of generateSpeech does: it rejects, or
\* resolves with a response whose first part has no inline data, or has data
SpeechAnswer(kind, data) == [kind |-> kind, data |-> data]

\* inline data: the empty string, FF 7F, 00 80, 01 02 03 04, 01 02 03 (an odd
\* number of bytes), and two strings atob rejects
Base64Samples ==
    {<<>>, <<"/", "3", "8", "=">>, <<"A", "I", "A", "=">>,
     <<"A", "Q", "I", "D", "B", "A", "=", "=">>, <<"A", "Q", "I", "D">>,
     <<"A", "Q", "=">>, <<"A">>}

SpeechAnswers ==
    {SpeechAnswer("rejected", <<>>), SpeechAnswer("no-data", <<>>)}
    \cup {SpeechAnswer("data", d) : d \in Base64Samples}

\* generateSpeech, from the awaited generateContent on: bytes or a thrown error
GenerateSpeech(answer) ==
    IF answer.kind = "rejected" THEN [ok |-> FALSE, bytes |-> <<>>, message |-> "ApiError"]
    ELSE IF answer.kind = "no-data" \/ answer.data = <<>>
    THEN [ok |-> FALSE, bytes |-> <<>>, message |-> "failed-to-generate-audio"]
    ELSE IF ~AtobAccepts(answer.data)
    THEN [ok |-> FALSE, bytes |-> <<>>, message |-> "InvalidCharacterError"]
    ELSE [ok |-> TRUE, bytes |-> DecodeBase64(answer.data), message |-> ""]

\* sampleRate: number = 24000, numChannels: number = 1
DefaultSampleRate == 24000
DefaultNumChannels == 1
\* channelData[i] = dataInt16[...] / 32768.0
SampleDivisor == 32768

\* element i (from 0) of new Int16Array(data.buffer): two bytes, the low one
\* first, read as a two's complement number
Int16At(data, i) ==
    LET u == data[2 * i + 1] + 256 * data[2 * i + 2]
    IN  IF u >= 32768 THEN u - 65536 ELSE u

\* fault: the high byte first
DecodeAudioDataBigEndian(data, sampleRate, numChannels) ==
    IF Len(data) % 2 # 0
    THEN [ok |-> FALSE, message |-> "RangeError"]
    ELSE LET frameCount == (Len(data) \div 2) \div numChannels
             be(i) == LET u == 256 * data[2 * i + 1] + data[2 * i + 2]
                      IN  IF u >= 32768 THEN u - 65536 ELSE u
         IN  [ok |-> TRUE, message |-> "",
              numberOfChannels |-> numChannels, sampleRate |-> sampleRate,
              channelData |->
                 [channel \in 1..numChannels |->
                    [i \in 1..frameCount |->
                       [num |-> be((i - 1) * numChannels + (channel - 1)),
                        den |-> SampleDivisor]]]]

\* decodeAudioData: the buffer, a sample being the fraction num / den; the
\* Int16Array constructor throws on a buffer of odd length
DecodeAudioData(data, sampleRate, numChannels) ==
    IF Len(data) % 2 # 0
    THEN [ok |-> FALSE, message |-> "RangeError"]
    ELSE LET frameCount == (Len(data) \div 2) \div numChannels
         IN  [ok |-> TRUE, message |-> "",
              numberOfChannels |-> numChannels, sampleRate |-> sampleRate,
              channelData |->
                 [channel \in 1..numChannels |->
                    [i \in 1..frameCount |->
                       [num |-> Int16At(data, (i - 1) * numChannels + (channel - 1)),
                        den |-> SampleDivisor]]]]

\* ------------------------------------------------------------- playAudio
\* a property that is not there
Undefined == "<undefined>"

\* analysis.summary
SummaryOf(res) == IF "summary" \in DOMAIN res.f THEN res.f.summary ELSE Undefined

\* fault: the empty string counts as true
TruthyDefined(v) == v # Undefined

\* a string or undefined used as a condition
Truthy(v) == v # Undefined /\ v # ""

\* a pending playAudio call: the await it is at, its text, and the bytes
\* generateSpeech returned
SpeechCall(stage, text, bytes) == [stage |-> stage, text |-> text, bytes |-> bytes]

\* playAudio up to its first await: the context is created if there is none
\* (the constructor may throw into the catch, which logs), then the call
\* awaits resume() of a suspended context or generateSpeech(text)
PlayAudio(text) ==
    /\ nSpeech' = nSpeech + 1
    /\ playing' = playing
    /\ IF audioCtx = "null" /\ audioPolicy = "no-context"
       THEN UNCHANGED <<audioCtx, speeches>>
       ELSE LET ctx == IF audioCtx # "null" THEN audioCtx
                       ELSE IF audioPolicy = "blocked" THEN "suspended"
                       ELSE "running"
            IN  /\ audioCtx' = ctx
                /\ speeches' = BagAdd(speeches,
                       SpeechCall(IF ctx = "suspended" THEN "resuming" ELSE "generating",
                                  text, <<>>))

\* ctx.resume() settles: playAudio goes on to generateSpeech, or the catch logs
ResumeSettled(s, ok) ==
    /\ CanRun
    /\ s \in BagToSet(speeches) /\ s.stage = "resuming"
    /\ IF ok
       THEN /\ audioCtx' = "running"
            /\ speeches' = BagAdd(BagDel(speeches, s), SpeechCall("generating", s.text, <<>>))
       ELSE /\ audioCtx' = audioCtx
            /\ speeches' = BagDel(speeches, s)
    /\ UNCHANGED <<nSpeech, playing>>
    /\ UNCHANGED <<envVars, uiVars, camVars, docVars, mounted, showHistory, permQuery,
                   pickerOpen>>

\* generateSpeech settles: playAudio calls decodeAudioData with the bytes, or
\* the catch logs the error (console.error, nothing else)
SpeechSettled(s, answer) ==
    LET out == GenerateSpeech(answer)
    IN  /\ CanRun
        /\ s \in BagToSet(speeches) /\ s.stage = "generating"
        /\ speeches' = IF out.ok
                       THEN BagAdd(BagDel(speeches, s), SpeechCall("decoding", s.text, out.bytes))
                       ELSE BagDel(speeches, s)
        /\ UNCHANGED <<audioCtx, nSpeech, playing>>
        /\ UNCHANGED <<envVars, uiVars, camVars, docVars, mounted, showHistory, permQuery,
                       pickerOpen>>

\* decodeAudioData settles: a source is created for the buffer and started
\* (started: source.start does not throw), or the catch logs the error
AudioDecoded(s, started) ==
    LET buffer == DecodeAudioData(s.bytes, DefaultSampleRate, DefaultNumChannels)
    IN  /\ CanRun
        /\ s \in BagToSet(speeches) /\ s.stage = "decoding"
        /\ speeches' = BagDel(speeches, s)
        /\ playing' = IF buffer.ok /\ started THEN Append(playing, buffer) ELSE playing
        /\ UNCHANGED <<audioCtx, nSpeech>>
        /\ UNCHANGED <<envVars, uiVars, camVars, docVars, mounted, showHistory, permQuery,
                       pickerOpen>>

\* --------------------------------------------------------- the pipeline
\* a piece of text: what it is, and for encoded data what it encodes
Text(what, of) == [text |-> what, of |-> of]

\* canvas.toDataURL('image/jpeg', 0.85): the string, as the list of its pieces
\* between commas (the base64 alphabet has no comma)
ToDataURL(pixels) ==
    <<Text("data:image/jpeg;base64", ""), Text("jpeg-base64", pixels)>>

\* fault: the piece before the comma
SplitFirst(dataURL) == dataURL[1]

\* .split(',')[1]
SplitSecond(dataURL) == dataURL[2]

\* what drawImage has put on the canvas
CanvasPixels == "canvas-pixels"

\* the synchronous part of processImageContent; hist is the history of the
\* render whose handler made the call
ProcessImageContent(hist) ==
    /\ isFrozen' = TRUE
    /\ isProcessing' = TRUE
    /\ result' = Null
    /\ tasks' = BagAdd(tasks, [hist |-> hist,
                               image |-> SplitSecond(ToDataURL(CanvasPixels))])

\* analyzeMedicalDocument settles with resp and processImageContent goes on
AnalysisSettled(t, resp) ==
    LET out == AnalyzeMedicalDocument(resp)
        updated == Updated(out.value, t.hist, clock + 1)
    IN  /\ CanRun
        /\ t \in BagToSet(tasks)
        /\ tasks' = BagDel(tasks, t)
        /\ IF out.ok
           THEN /\ result' = out.value
                /\ history' = updated
                /\ storage' = Stored(JSONStringify(updated))
                /\ clock' = clock + 1
                   \* settings.audioEnabled && analysis.summary: reading the
                   \* summary of null throws into the catch
                /\ IF settings.audioEnabled /\ out.value = Null
                   THEN /\ alert' = "TypeError"
                        /\ isProcessing' = isProcessing
                        /\ UNCHANGED speechVars
                   ELSE /\ alert' = alert
                        /\ isProcessing' = FALSE
                        /\ IF settings.audioEnabled /\ Truthy(SummaryOf(out.value))
                           THEN PlayAudio(SummaryOf(out.value))
                           ELSE UNCHANGED speechVars
           ELSE /\ alert' = TechnicalDetails(out.message)
                /\ UNCHANGED <<result, history, storage, clock, isProcessing>>
                /\ UNCHANGED speechVars
        /\ UNCHANGED <<isFrozen, uploads, nAnalyses>>
        /\ UNCHANGED <<envVars, uiVars, camVars, mounted, showHistory, permQuery, pickerOpen>>

\* fault: no finally block
AlertClosedNoFinally ==
    /\ mounted
    /\ alert # NoAlert
    /\ alert' = NoAlert
    /\ UNCHANGED <<isProcessing, storage, history, isFrozen, result, uploads, tasks,
                   nAnalyses, clock>>
    /\ UNCHANGED <<envVars, uiVars, speechVars, camVars, mounted, showHistory, permQuery,
                   pickerOpen>>

\* the user closes the alert of the catch block; finally runs
AlertClosed ==
    /\ mounted
    /\ alert # NoAlert
    /\ alert' = NoAlert
    /\ isProcessing' = FALSE
    /\ UNCHANGED <<storage, history, isFrozen, result, uploads, tasks, nAnalyses, clock>>
    /\ UNCHANGED <<envVars, uiVars, speechVars, camVars, mounted, showHistory, permQuery, pickerOpen>>

\* handleMainAction
MainAction ==
    /\ PageReachable
    /\ \/ /\ isFrozen
          /\ isFrozen' = FALSE
          /\ result' = Null
          /\ UNCHANGED <<isProcessing, tasks, nAnalyses, pickerOpen>>
       \/ /\ ~isFrozen /\ ~cameraActive
          /\ pickerOpen' = TRUE
          /\ UNCHANGED <<isFrozen, isProcessing, result, tasks, nAnalyses>>
       \/ /\ ~isFrozen /\ cameraActive /\ VideoMounted
          /\ nAnalyses < MaxAnalyses
          /\ nAnalyses' = nAnalyses + 1
          /\ ProcessImageContent(history)
          /\ pickerOpen' = pickerOpen
    /\ UNCHANGED <<storage, history, uploads, alert, clock>>
    /\ UNCHANGED <<envVars, uiVars, speechVars, camVars, mounted, showHistory, permQuery>>

\* "Carregar Foto da Galeria" of the waiting panel, under the result overlay
GalleryButton ==
    /\ PageReachable
    /\ ~cameraActive /\ cameraError = NoError /\ ~isFrozen
    /\ pickerOpen' = TRUE
    /\ UNCHANGED <<envVars, uiVars, speechVars, camVars, docVars, mounted, showHistory, permQuery>>

\* handleFileUpload: the change event of the file input, with or without a file
FileChosen(file) ==
    /\ CanRun
    /\ pickerOpen
    /\ pickerOpen' = FALSE
    /\ IF file
       THEN /\ nAnalyses < MaxAnalyses
            /\ nAnalyses' = nAnalyses + 1
            /\ uploads' = BagAdd(uploads, [stage |-> "reading", hist |-> history])
       ELSE UNCHANGED <<uploads, nAnalyses>>
    /\ UNCHANGED <<storage, history, isFrozen, isProcessing, result, tasks, alert, clock>>
    /\ UNCHANGED <<envVars, uiVars, speechVars, camVars, mounted, showHistory, permQuery>>

\* reader.onload: img.src = the data URL
ReaderLoaded(u) ==
    /\ CanRun
    /\ u \in BagToSet(uploads) /\ u.stage = "reading"
    /\ uploads' = BagAdd(BagDel(uploads, u), [stage |-> "decoding", hist |-> u.hist])
    /\ UNCHANGED <<storage, history, isFrozen, isProcessing, result, tasks, alert,
                   nAnalyses, clock>>
    /\ UNCHANGED <<envVars, uiVars, speechVars, camVars, mounted, showHistory, permQuery, pickerOpen>>

\* img.onload: draw on the canvas and call processImageContent
ImageLoaded(u) ==
    /\ CanRun
    /\ u \in BagToSet(uploads) /\ u.stage = "decoding"
    /\ uploads' = BagDel(uploads, u)
    /\ ProcessImageContent(u.hist)
    /\ UNCHANGED <<storage, history, alert, nAnalyses, clock>>
    /\ UNCHANGED <<envVars, uiVars, speechVars, camVars, mounted, showHistory, permQuery, pickerOpen>>

\* footer button "Historico"
OpenHistory ==
    /\ PageReachable
    /\ showHistory' = TRUE
    /\ UNCHANGED <<envVars, uiVars, speechVars, camVars, docVars, mounted, permQuery, pickerOpen>>

\* "FECHAR" of the history modal
CloseHistory ==
    /\ CanAct /\ showHistory
    /\ showHistory' = FALSE
    /\ UNCHANGED <<envVars, uiVars, speechVars, camVars, docVars, mounted, permQuery, pickerOpen>>

\* a history entry's button
SelectHistory(i) ==
    /\ CanAct /\ showHistory
    /\ i \in 1..Len(history)
    /\ result' = Obj(history[i])
    /\ isFrozen' = TRUE
    /\ showHistory' = FALSE
    /\ UNCHANGED <<storage, history, isProcessing, uploads, tasks, alert, nAnalyses, clock>>
    /\ UNCHANGED <<envVars, uiVars, speechVars, camVars, mounted, permQuery, pickerOpen>>

\* ------------------------------------------------------- settings and zoom
Max(a, b) == IF a > b THEN a ELSE b

\* footer button "Configuracoes"
OpenSettings ==
    /\ PageReachable
    /\ showSettings' = TRUE
    /\ UNCHANGED <<settings>>
    /\ UNCHANGED <<envVars, speechVars, camVars, docVars, mounted, showHistory, permQuery,
                   pickerOpen>>

\* "PRONTO" of the settings modal
CloseSettings ==
    /\ CanAct /\ showSettings
    /\ showSettings' = FALSE
    /\ UNCHANGED <<settings>>
    /\ UNCHANGED <<envVars, speechVars, camVars, docVars, mounted, showHistory, permQuery,
                   pickerOpen>>

\* fault: no Math.max
FontSmallerNoFloor ==
    /\ CanAct /\ showSettings
    /\ settings' = [settings EXCEPT !.fontSize = @ - FontStep]
    /\ UNCHANGED <<showSettings>>
    /\ UNCHANGED <<envVars, speechVars, camVars, docVars, mounted, showHistory, permQuery,
                   pickerOpen>>

\* the "-" button: fontSize: Math.max(20, s.fontSize - 4)
FontSmaller ==
    /\ CanAct /\ showSettings
    /\ settings' = [settings EXCEPT !.fontSize = Max(FontMin, @ - FontStep)]
    /\ UNCHANGED <<showSettings>>
    /\ UNCHANGED <<envVars, speechVars, camVars, docVars, mounted, showHistory, permQuery,
                   pickerOpen>>

\* the "+" button: fontSize: Math.min(60, s.fontSize + 4)
FontLarger ==
    /\ CanAct /\ showSettings
    /\ settings' = [settings EXCEPT !.fontSize = Min(FontMax, @ + FontStep)]
    /\ UNCHANGED <<showSettings>>
    /\ UNCHANGED <<envVars, speechVars, camVars, docVars, mounted, showHistory, permQuery,
                   pickerOpen>>

\* one of the three colour scheme buttons
SetContrast(mode) ==
    /\ CanAct /\ showSettings
    /\ settings' = [settings EXCEPT !.contrastMode = mode]
    /\ UNCHANGED <<showSettings>>
    /\ UNCHANGED <<envVars, speechVars, camVars, docVars, mounted, showHistory, permQuery,
                   pickerOpen>>

\* e.target.value of the range input at position v: the decimal string, kept
\* as its integer part and its one fraction digit
RangeValue(v) == [int |-> v \div ZoomScale, frac |-> v % ZoomScale]

\* fault: parseInt, the fraction is dropped
ParseInt(str) == str.int * ZoomScale

\* parseFloat of such a string, in tenths
ParseFloat(str) == str.int * ZoomScale + str.frac

\* the zoom slider is moved to v
ZoomSlider(v) ==
    /\ PageReachable /\ ~isFrozen
    /\ v \in SliderValues
    /\ settings' = [settings EXCEPT !.zoomLevel = ParseFloat(RangeValue(v))]
    /\ UNCHANGED <<showSettings>>
    /\ UNCHANGED <<envVars, speechVars, camVars, docVars, mounted, showHistory, permQuery,
                   pickerOpen>>

\* the button under the slider: zoomLevel: 1
ZoomReset ==
    /\ PageReachable /\ ~isFrozen
    /\ settings' = [settings EXCEPT !.zoomLevel = 1 * ZoomScale]
    /\ UNCHANGED <<showSettings>>
    /\ UNCHANGED <<envVars, speechVars, camVars, docVars, mounted, showHistory, permQuery,
                   pickerOpen>>

\* ------------------------------------------------------- mount and reload
\* the mount effect; perm: navigator.permissions.query exists (part_002)
Mount(perm) ==
    /\ ~mounted
    /\ mounted' = TRUE
    /\ history' = IF storage.present THEN JSONParse(storage.text) ELSE history
    /\ IF rev = "app"
       THEN /\ StartCamera
            /\ permQuery' = permQuery
       ELSE /\ permQuery' = IF perm THEN "pending" ELSE permQuery
            /\ UNCHANGED camVars
    /\ UNCHANGED <<storage, isFrozen, isProcessing, result, uploads, tasks, alert,
                   nAnalyses, clock>>
    /\ UNCHANGED <<envVars, uiVars, speechVars, showHistory, pickerOpen>>

\* the page is loaded again: every useState and useRef starts over, pending
\* promises and the streams of the old page are gone, localStorage stays
Reload ==
    /\ CanAct
    /\ nCam < MaxCamCalls
    /\ mounted' = FALSE
    /\ history' = <<>>
    /\ isFrozen' = FALSE
    /\ isProcessing' = FALSE
    /\ result' = Null
    /\ showHistory' = FALSE
    /\ cameraActive' = FALSE
    /\ cameraError' = NoError
    /\ torchActive' = FALSE
    /\ hasTorch' = FALSE
    /\ needsPermission' = (rev = "part2")
    /\ streamRef' = "null"
    /\ strayStreams' = 0
    /\ permQuery' = "none"
    /\ cams' = EmptyBag
    /\ uploads' = EmptyBag
    /\ tasks' = EmptyBag
    /\ settings' = InitialSettings
    /\ showSettings' = FALSE
    /\ audioCtx' = "null"
    /\ speeches' = EmptyBag
    /\ playing' = <<>>
    /\ UNCHANGED <<envVars, nSpeech, storage, pickerOpen, alert, nCam, nAnalyses, clock>>

Init ==
    /\ rev \in Revs
    /\ isSecureContext \in BOOLEAN
    /\ hasMediaDevices \in BOOLEAN
    /\ mounted = FALSE
    /\ priorLen \in {0, HistoryLimit - 1}
    /\ audioPolicy \in AudioPolicies
    /\ storage = IF priorLen = 0 THEN NoItem
                 ELSE Stored(JSONStringify(PriorList(priorLen)))
    /\ history = <<>>
    /\ isFrozen = FALSE
    /\ isProcessing = FALSE
    /\ result = Null
    /\ showHistory = FALSE
    /\ cameraActive = FALSE
    /\ cameraError = NoError
    /\ torchActive = FALSE
    /\ hasTorch = FALSE
    /\ needsPermission = (rev = "part2")
    /\ streamRef = "null"
    /\ strayStreams = 0
    /\ permQuery = "none"
    /\ cams = EmptyBag
    /\ pickerOpen = FALSE
    /\ uploads = EmptyBag
    /\ tasks = EmptyBag
    /\ alert = NoAlert
    /\ nCam = 0
    /\ nAnalyses = 0
    /\ clock = 0
    /\ settings = InitialSettings
    /\ showSettings = FALSE
    /\ audioCtx = "null"
    /\ speeches = EmptyBag
    /\ nSpeech = 0
    /\ playing = <<>>

Next ==
    \/ \E perm \in BOOLEAN : Mount(perm)
    \/ Reload
    \/ PermissionGranted
    \/ PermissionNotGranted
    \/ OverlayStart
    \/ RetryCamera
    \/ \E c \in BagToSet(cams), caps \in {"absent", "torch", "no-torch"} :
          Attempt1Resolved(c, caps)
    \/ \E c \in BagToSet(cams), name \in EarlyErrorNames : Attempt1Rejected(c, name)
    \/ \E c \in BagToSet(cams) : Attempt2Resolved(c)
    \/ \E c \in BagToSet(cams), name \in EarlyErrorNames : Attempt2Rejected(c, name)
    \/ \E c \in BagToSet(cams) : Attempt3Resolved(c)
    \/ \E c \in BagToSet(cams), name \in ErrorNames : Attempt3Rejected(c, name)
    \/ \E ok \in BOOLEAN : ToggleTorch(ok)
    \/ MainAction
    \/ GalleryButton
    \/ \E file \in BOOLEAN : FileChosen(file)
    \/ \E u \in BagToSet(uploads) : ReaderLoaded(u)
    \/ \E u \in BagToSet(uploads) : ImageLoaded(u)
    \/ \E t \in BagToSet(tasks), resp \in Responses : AnalysisSettled(t, resp)
    \/ AlertClosed
    \/ OpenHistory
    \/ CloseHistory
    \/ \E i \in 1..HistoryLimit : SelectHistory(i)
    \/ \E sp \in BagToSet(speeches), ok \in BOOLEAN : ResumeSettled(sp, ok)
    \/ \E sp \in BagToSet(speeches), answer \in SpeechAnswers : SpeechSettled(sp, answer)
    \/ \E sp \in BagToSet(speeches), started \in BOOLEAN : AudioDecoded(sp, started)
    \/ OpenSettings
    \/ CloseSettings
    \/ FontSmaller
    \/ FontLarger
    \/ \E mode \in ContrastModes : SetContrast(mode)
    \/ \E v \in SliderValues : ZoomSlider(v)
    \/ ZoomReset

\* the whole component
Spec == Init /\ [][Next]_vars


\* ---------------------------------------------------- the two halves
\* The camera ladder and the document pipeline meet only in the guards of the
\* buttons: the pipeline reads cameraActive and cameraError, the ladder reads
\* isFrozen, showHistory and the picker (which only hide its retry button).

\* The camera ladder alone, the result overlay and the history modal closed.
NextCamera ==
    \/ \E perm \in BOOLEAN : Mount(perm)
    \/ Reload
    \/ PermissionGranted
    \/ PermissionNotGranted
    \/ OverlayStart
    \/ RetryCamera
    \/ \E c \in BagToSet(cams), caps \in {"absent", "torch", "no-torch"} :
          Attempt1Resolved(c, caps)
    \/ \E c \in BagToSet(cams), name \in EarlyErrorNames : Attempt1Rejected(c, name)
    \/ \E c \in BagToSet(cams) : Attempt2Resolved(c)
    \/ \E c \in BagToSet(cams), name \in EarlyErrorNames : Attempt2Rejected(c, name)
    \/ \E c \in BagToSet(cams) : Attempt3Resolved(c)
    \/ \E c \in BagToSet(cams), name \in ErrorNames : Attempt3Rejected(c, name)
    \/ \E ok \in BOOLEAN : ToggleTorch(ok)

CameraSpec == Init /\ [][NextCamera]_vars

\* Capture, analysis and speech in part_002, from empty storage, without
\* uploads and reloads.
InitSpeech ==
    Init /\ rev = "part2" /\ isSecureContext /\ hasMediaDevices /\ priorLen = 0

NextSpeech ==
    \/ Mount(FALSE)
    \/ OverlayStart
    \/ \E c \in BagToSet(cams) : Attempt1Resolved(c, "absent")
    \/ MainAction
    \/ FileChosen(FALSE)
    \/ \E t \in BagToSet(tasks), resp \in SpeechResponses : AnalysisSettled(t, resp)
    \/ AlertClosed
    \/ OpenHistory
    \/ CloseHistory
    \/ \E i \in 1..HistoryLimit : SelectHistory(i)
    \/ \E sp \in BagToSet(speeches), ok \in BOOLEAN : ResumeSettled(sp, ok)
    \/ \E sp \in BagToSet(speeches), answer \in SpeechAnswers : SpeechSettled(sp, answer)
    \/ \E sp \in BagToSet(speeches), started \in BOOLEAN : AudioDecoded(sp, started)

SpeechSpec == InitSpeech /\ [][NextSpeech]_vars

\* The settings modal and the zoom controls in part_002, with capture,
\* dismissal and the history a previous session left; the service answers
\* with no text or with a complete document. The font buttons and the zoom
\* controls are taken apart: each writes its own field of settings through
\* a functional update, and both are checked next to the colour scheme.
InitSettings ==
    /\ Init /\ rev = "part2" /\ isSecureContext /\ hasMediaDevices
    /\ priorLen = HistoryLimit - 1 /\ audioPolicy = "allowed"

SettingsResponses ==
    {resp \in Responses : resp.kind = "no-text" \/ (resp.kind = "json" /\ resp.doc = FullDoc)}

NextFont ==
    \/ Mount(FALSE)
    \/ OverlayStart
    \/ \E c \in BagToSet(cams) : Attempt1Resolved(c, "absent")
    \/ MainAction
    \/ FileChosen(FALSE)
    \/ \E t \in BagToSet(tasks), resp \in SettingsResponses : AnalysisSettled(t, resp)
    \/ AlertClosed
    \/ OpenHistory
    \/ CloseHistory
    \/ \E i \in 1..HistoryLimit : SelectHistory(i)
    \/ OpenSettings
    \/ CloseSettings
    \/ FontSmaller
    \/ FontLarger
    \/ \E mode \in ContrastModes : SetContrast(mode)

FontSpec == InitSettings /\ [][NextFont]_vars

NextZoom ==
    \/ Mount(FALSE)
    \/ OverlayStart
    \/ \E c \in BagToSet(cams) : Attempt1Resolved(c, "absent")
    \/ MainAction
    \/ FileChosen(FALSE)
    \/ \E t \in BagToSet(tasks), resp \in SettingsResponses : AnalysisSettled(t, resp)
    \/ AlertClosed
    \/ OpenHistory
    \/ CloseHistory
    \/ \E i \in 1..HistoryLimit : SelectHistory(i)
    \/ OpenSettings
    \/ CloseSettings
    \/ \E mode \in ContrastModes : SetContrast(mode)
    \/ \E v \in SliderValues : ZoomSlider(v)
    \/ ZoomReset

ZoomSpec == InitSettings /\ [][NextZoom]_vars

\* The document pipeline, in a secure context without Permissions API and with
\* a camera that is granted at the first attempt or keeps it pending: every
\* value of cameraActive, with cameraError = null, that the buttons of the
\* pipeline read (a camera error only hides the gallery button, and the main
\* button opens the same picker).
InitDocs == Init /\ isSecureContext /\ hasMediaDevices /\ audioPolicy = "allowed"

NextDocs ==
    \/ Mount(FALSE)
    \/ Reload
    \/ OverlayStart
    \/ \E c \in BagToSet(cams) : Attempt1Resolved(c, "absent")
    \/ MainAction
    \/ GalleryButton
    \/ \E file \in BOOLEAN : FileChosen(file)
    \/ \E u \in BagToSet(uploads) : ReaderLoaded(u)
    \/ \E u \in BagToSet(uploads) : ImageLoaded(u)
    \/ \E t \in BagToSet(tasks), resp \in Responses : AnalysisSettled(t, resp)
    \/ AlertClosed
    \/ OpenHistory
    \/ CloseHistory
    \/ \E i \in 1..HistoryLimit : SelectHistory(i)

DocSpec == InitDocs /\ [][NextDocs]_vars


\* ------------------------------------------------------------- history
StoredHistory == IF storage.present THEN JSONParse(storage.text) ELSE <<>>

\* C1: the in-memory history and the list stored under 'lupa_history' hold at
\* most 10 entries each, in every reachable state.
C1_HistoryBounded ==
    /\ Len(history) <= HistoryLimit
    /\ Len(StoredHistory) <= HistoryLimit

\* a full history took one more entry and dropped its oldest one
C1_Witness ==
    /\ mounted
    /\ Len(history) = HistoryLimit
    /\ Len(StoredHistory) = HistoryLimit
    /\ priorLen > 0
    /\ history[1].id >= 1
    /\ history[HistoryLimit].id > 1 - priorLen

\* C2: the history is ordered most recent first: an entry saved later (a later
\* tick of the clock in its id) is at a smaller index, and the first entry is
\* the one saved last.
C2_MostRecentFirst ==
    /\ \A i, j \in 1..Len(history) : i < j => history[i].id > history[j].id
    /\ Len(history) > 0 => history[1].id = clock

\* two analyses of this session are in the history, the later one first
C2_Witness ==
    /\ Len(history) >= 2
    /\ history[1].id = 2
    /\ history[2].id = 1

\* C3: at most one analyzeMedicalDocument call is pending at any time.
C3_OneAnalysisInFlight == BagCardinality(tasks) <= 1

\* C4: started from empty storage, after n successful analyses the history and
\* the stored list are exactly the min(10, n) most recently completed ones.
C4_NoLostResult ==
    (priorLen = 0 /\ mounted) =>
        /\ Len(history) = Min(HistoryLimit, clock)
        /\ \A i \in 1..Len(history) : history[i].id = clock + 1 - i
        /\ StoredHistory = history

\* C5: once mounted, the in-memory history is what 'lupa_history' decodes to
\* (the empty list when the key is absent), after every save and every reload.
C5_StorageMirrorsHistory == mounted => history = StoredHistory

\* the page was loaded again after a save and shows the saved history
C5_Witness ==
    /\ rev = "app" /\ nCam = 2 /\ mounted
    /\ clock >= 1
    /\ Len(history) >= 1 /\ history[1].id = clock
    /\ "summary" \in DOMAIN history[1]


\* -------------------------------------------------------------- camera
\* the getUserMedia constraints of the three try blocks, in ladder order
Ladder == <<"ideal-rear", "relaxed-rear", "minimal">>

Pending == BagCardinality(cams)

\* C6: one startCamera invocation makes at most three getUserMedia attempts,
\* in ladder order: a new invocation awaits the first attempt, an invocation
\* awaits attempt k+1 only in place of its attempt k and with the rejection of
\* attempt k caught, and a settled attempt that was not rejected is followed by
\* no further attempt.
C6_LadderInOrder ==
    /\ [](\A c \in BagToSet(cams) :
            /\ c.step \in 1..Len(Ladder)
            /\ (c.err # NoName) = (c.step >= 2)
            /\ (c.err2 # NoName) = (c.step >= 3))
    /\ [][/\ Pending' <= Pending + (nCam' - nCam)
          /\ \A c \in BagToSet(cams') :
               CopiesIn(c, cams') > CopiesIn(c, cams) =>
                 \/ c.step = 1 /\ nCam' = nCam + 1
                 \/ /\ c.step > 1 /\ nCam' = nCam /\ Pending' = Pending
                    /\ UNCHANGED <<streamRef, strayStreams, cameraActive>>
                    /\ \E d \in BagToSet(cams) :
                         /\ d.step = c.step - 1
                         /\ CopiesIn(d, cams') < CopiesIn(d, cams)]_vars

\* an invocation awaits the third attempt with both rejections caught
C6_Witness ==
    \E c \in BagToSet(cams) : c.step = 3 /\ c.err # NoName /\ c.err2 # NoName

\* the hint each error name of the last attempt stands for
HintOf(name) ==
    CASE name \in {"NotAllowedError", "PermissionDeniedError"} -> "permission-denied"
      [] name \in {"NotFoundError", "DevicesNotFoundError"} -> "camera-not-found"
      [] name \in {"NotReadableError", "TrackStartError"} -> "camera-in-use"
      [] OTHER -> "technical-error"

\* C7: when the third attempt rejects, cameraActive is false and cameraError
\* carries the hint of that rejection's error name, whatever the names of the
\* first two rejections were.
C7_LastErrorDecides ==
    [][\A c \in BagToSet(cams), name \in ErrorNames :
         Attempt3Rejected(c, name) =>
            /\ ~cameraActive'
            /\ cameraError'.hint = HintOf(name)]_vars

\* the ladder ended in the camera-in-use hint
C7_Witness ==
    /\ ~cameraActive
    /\ cameraError.hint = "camera-in-use"
    /\ cameraError.name = "TrackStartError"

\* C8 (part_002): an invocation past the two checks ends, once its attempts
\* settle, either having set cameraActive to true and no error, or having set
\* cameraActive to false and cameraError to a message.
C8_TwoOutcomes ==
    /\ [][(rev = "part2" /\ mounted' /\ Pending' < Pending) =>
            \/ cameraActive' /\ cameraError' = cameraError
            \/ ~cameraActive' /\ cameraError' # NoError
         ]_vars
    /\ [](Pending > 0 => <>(Pending = 0))

\* part_002 got the camera at the second attempt
C8_Witness ==
    /\ rev = "part2" /\ mounted
    /\ cameraActive /\ cameraError = NoError /\ streamRef = "stream"
    /\ Pending = 0 /\ nCam = 1

\* C9: no two startCamera invocations await getUserMedia at the same time.
C9_OneLadderAtATime == Pending <= 1

\* a pending getUserMedia call settles: it resolves or rejects
Settles ==
    \/ \E c \in BagToSet(cams), caps \in {"absent", "torch", "no-torch"} :
          Attempt1Resolved(c, caps)
    \/ \E c \in BagToSet(cams), name \in EarlyErrorNames : Attempt1Rejected(c, name)
    \/ \E c \in BagToSet(cams) : Attempt2Resolved(c)
    \/ \E c \in BagToSet(cams), name \in EarlyErrorNames : Attempt2Rejected(c, name)
    \/ \E c \in BagToSet(cams) : Attempt3Resolved(c)
    \/ \E c \in BagToSet(cams), name \in ErrorNames : Attempt3Rejected(c, name)

\* the camera ladder when every getUserMedia call eventually settles
FairCameraSpec == CameraSpec /\ WF_vars(Settles)


\* ------------------------------------------------------ failed analysis
\* the ways analyzeMedicalDocument fails
FailureKinds == {"rejected", "no-text", "not-json"}

\* the text the alert must carry for a failure
ExpectedDetails(resp) ==
    CASE resp.kind = "rejected" -> IF resp.message = "" THEN "{}" ELSE resp.message
      [] resp.kind = "no-text" -> "no-valid-response"
      [] resp.kind = "not-json" -> "failed-to-process"

FailureDetails == {ExpectedDetails(resp) : resp \in {r \in Responses : r.kind \in FailureKinds}}

\* the alert of a failed analysis is closed and finally has run
FailureAlertClosed == alert \in FailureDetails /\ alert' = NoAlert

\* C10 as stated: after a failed analysis isProcessing is false, result is null
\* and isFrozen is true.
C10_FailureShowsOverlay ==
    [][FailureAlertClosed => (~isProcessing' /\ result' = Null /\ isFrozen')]_vars

\* C10 as amended: a failed analysis raises the blocking alert with the error
\* message (the JSON of the error when it has none) and sets neither result
\* nor isFrozen; once the alert is closed isProcessing is false, result and
\* isFrozen still being what they were before the failure.
C10_FailureAlerts ==
    [][/\ \A t \in BagToSet(tasks), resp \in Responses :
            (resp.kind \in FailureKinds /\ AnalysisSettled(t, resp)) =>
                /\ alert' = ExpectedDetails(resp)
                /\ UNCHANGED <<result, isFrozen>>
       /\ FailureAlertClosed => (~isProcessing' /\ UNCHANGED <<result, isFrozen>>)
      ]_vars

\* the alert of an unparseable answer is up over the result overlay
C10_Witness ==
    /\ alert = "failed-to-process"
    /\ isFrozen /\ result = Null /\ isProcessing


\* ------------------------------------------------------ failed analyses
\* C11: a failed analysis changes neither the history nor the stored list and
\* makes no speech request: the step of processImageContent that enters its
\* catch branch (it raises the alert) leaves history, storage and the count of
\* playAudio calls as they were.
C11_FailureKeepsHistory ==
    [][\A t \in BagToSet(tasks), resp \in Responses :
          (AnalysisSettled(t, resp) /\ alert' # NoAlert) =>
              UNCHANGED <<history, storage, nSpeech>>
      ]_vars

\* ---------------------------------------------------------------- speech
\* a step in which the speech call fails: generateSpeech rejects or finds no
\* audio data, or decoding or playback throws
SpeechFailure ==
    \E sp \in BagToSet(speeches) :
        \/ \E answer \in SpeechAnswers :
              ~GenerateSpeech(answer).ok /\ SpeechSettled(sp, answer)
        \/ \E started \in BOOLEAN : AudioDecoded(sp, started) /\ playing' = playing

\* C12: a failure of the speech call is shown to the user as a blocking alert.
C12_SpeechFailureAlerts == [][SpeechFailure => alert' # NoAlert]_vars

C13_CameraOnLoad ==
    (mounted /\ permQuery # "pending") => (~needsPermission \/ cameraError # NoError)

\* ------------------------------------------------------- font and zoom
\* C14: the font size starts at 28 and is always one of 20, 24, ..., 60; the
\* "-" button takes 4 off and the "+" button adds 4, "-" at 20 and "+" at 60
\* leave it as it is, and no other step changes it.
C14_FontSizeInRange ==
    /\ settings.fontSize = 28
    /\ [](settings.fontSize \in {20 + 4 * k : k \in 0..10})
    /\ [][/\ FontSmaller =>
              settings'.fontSize = IF settings.fontSize = 20 THEN 20
                                   ELSE settings.fontSize - 4
          /\ FontLarger =>
              settings'.fontSize = IF settings.fontSize = 60 THEN 60
                                   ELSE settings.fontSize + 4
          /\ settings'.fontSize # settings.fontSize => (FontSmaller \/ FontLarger)
        ]_vars

\* the largest font, with a result on screen
C14_Witness ==
    /\ settings.fontSize = 60
    /\ isFrozen /\ result # Null /\ ~showSettings

\* C15: the zoom level starts at 1 and is always between 1 and 5 (in tenths);
\* the slider sets it to the position it is moved to, one of 1.0, 1.1, ...,
\* 5.0, the reset button sets it to 1, and no other step (capture, dismissal,
\* history selection, a settings change) changes it.
C15_ZoomInRange ==
    /\ settings.zoomLevel = 10
    /\ [](settings.zoomLevel \in 10..50)
    /\ [][/\ \A v \in 10..50 : ZoomSlider(v) => settings'.zoomLevel = v
          /\ ZoomReset => settings'.zoomLevel = 10
          /\ settings'.zoomLevel # settings.zoomLevel =>
                 ((\E v \in 10..50 : ZoomSlider(v)) \/ ZoomReset)
        ]_vars

\* zoomed in to 4.9x, the colour scheme changed, a history entry on screen
C15_Witness ==
    /\ settings.zoomLevel = 49
    /\ settings.contrastMode = "yellow"
    /\ isFrozen /\ result # Null

\* --------------------------------------------------------------- upload
\* C16: a chosen file leads, when it has been read and decoded, to exactly one
\* processImageContent call with the base64 JPEG data of the canvas (without
\* the data-URL prefix), which sets isFrozen and isProcessing and clears the
\* result; before that the upload changes no state and starts no analysis,
\* and a change event without a file changes nothing at all.
C16_UploadFeedsPipeline ==
    [][/\ \A u \in BagToSet(uploads) : ImageLoaded(u) =>
            /\ isFrozen' /\ isProcessing' /\ result' = Null
            /\ BagCardinality(uploads') = BagCardinality(uploads) - 1
            /\ BagCardinality(tasks') = BagCardinality(tasks) + 1
            /\ \E t \in BagToSet(tasks') :
                  /\ tasks' = tasks (+) SetToBag({t})
                  /\ t.image = Text("jpeg-base64", CanvasPixels)
       /\ (FileChosen(TRUE) \/ \E u \in BagToSet(uploads) : ReaderLoaded(u)) =>
            /\ BagCardinality(uploads') >= BagCardinality(uploads)
            /\ UNCHANGED <<tasks, isFrozen, isProcessing, result, history, storage>>
       /\ FileChosen(FALSE) =>
            UNCHANGED <<uploads, tasks, isFrozen, isProcessing, result, history, storage,
                        alert, camVars, uiVars, speechVars, showHistory>>
      ]_vars

\* src/src/App.tsx, where the camera never becomes active: the analysis of an
\* uploaded image is pending
C16_Witness ==
    /\ rev = "app"
    /\ uploads = EmptyBag /\ BagCardinality(tasks) = 1
    /\ isFrozen /\ isProcessing /\ result = Null

\* ------------------------------------------------------------ decoding
\* C18: speech audio is decoded as 16-bit mono 24 kHz PCM. The bytes
\* generateSpeech hands on are the character codes of the decoded base64
\* string, one byte per character, in order; from n bytes (n even)
\* decodeAudioData makes the buffer that is played: 1 channel, sample rate
\* 24000, n/2 frames, frame i being the i-th 16-bit signed sample (low byte
\* first) over 32768.
C18_PcmDecoding ==
    [][/\ \A sp \in BagToSet(speeches), answer \in SpeechAnswers :
            (SpeechSettled(sp, answer) /\ BagCardinality(speeches') = BagCardinality(speeches)) =>
                \E d \in BagToSet(speeches') :
                    /\ d.stage = "decoding"
                    /\ CopiesIn(d, speeches') = CopiesIn(d, speeches) + 1
                    /\ Len(d.bytes) = Len(Atob(answer.data))
                    /\ \A i \in 1..Len(d.bytes) :
                          d.bytes[i] \in 0..255 /\ d.bytes[i] = Atob(answer.data)[i]
       /\ \A sp \in BagToSet(speeches) :
            (AudioDecoded(sp, TRUE) /\ Len(sp.bytes) % 2 = 0) =>
                /\ Len(playing') = Len(playing) + 1
                /\ LET b == playing'[Len(playing')]
                   IN  /\ b.numberOfChannels = 1
                       /\ b.sampleRate = 24000
                       /\ DOMAIN b.channelData = {1}
                       /\ Len(b.channelData[1]) * 2 = Len(sp.bytes)
                       /\ \A i \in 1..Len(b.channelData[1]) :
                             /\ b.channelData[1][i].den = 32768
                             /\ b.channelData[1][i].num \in -32768..32767
                             /\ (b.channelData[1][i].num - sp.bytes[2 * i - 1]
                                     - 256 * sp.bytes[2 * i]) % 65536 = 0
      ]_vars

\* two buffers have been played: one of two frames (01 02 03 04), one whose
\* only sample is the most negative one (00 80)
C18_Witness ==
    /\ Len(playing) = 2
    /\ \E i \in 1..2 : Len(playing[i].channelData[1]) = 2
                         /\ playing[i].channelData[1][2].num = 1027
    /\ \E i \in 1..2 : playing[i].channelData[1][1].num = -32768

\* ------------------------------------------------------ stored documents
\* the required fields of RecognitionResult
RequiredFields == {"text", "medications", "summary"}

\* C19: every history entry, every stored entry and every result on screen
\* has the fields text, summary and medications, whatever JSON the service
\* answered with.
C19_RequiredFieldsStored ==
    /\ result # Null => RequiredFields \subseteq DOMAIN result.f
    /\ \A i \in 1..Len(history) : RequiredFields \subseteq DOMAIN history[i]
    /\ \A i \in 1..Len(StoredHistory) : RequiredFields \subseteq DOMAIN StoredHistory[i]

\* C20: the processing flag tracks the request in flight: while an
\* analyzeMedicalDocument call is outstanding isProcessing is true (so it
\* turns false only when none is left).
C20_ProcessingTracksRequest == tasks # EmptyBag => isProcessing

\* -------------------------------------------------------- result overlay
\* C21: a result exists only while the result overlay is shown: result is
\* non-null only if isFrozen is true (so after a dismissal it stays null until
\* a capture, an upload or a history entry freezes the view again).
C21_ResultOnlyWhileFrozen == result # Null => isFrozen

\* --------------------------------------------------- processing released
\* some pending analyzeMedicalDocument call settles
AnalysisSettles ==
    \E t \in BagToSet(tasks), resp \in SpeechResponses : AnalysisSettled(t, resp)

\* every pending analysis call settles, and an alert on screen gets closed
FairSpeechSpec == SpeechSpec /\ WF_vars(AnalysisSettles) /\ WF_vars(AlertClosed)

\* C22: every started analysis releases the processing state. The step in
\* which the call settles either clears isProcessing at once (success, also
\* while the speech it has asked for is pending) or raises the alert of the
\* catch block, and closing that alert clears it; so a pending analysis leads
\* to isProcessing being false.
C22_ProcessingReleased ==
    /\ [][/\ AnalysisSettles => (~isProcessing' \/ alert' # NoAlert)
          /\ AlertClosed => ~isProcessing'
        ]_vars
    /\ [](tasks # EmptyBag => <>(~isProcessing))

\* the analysis has ended and the flag is down while its playAudio call still
\* waits for the audio context to resume
C22_Witness ==
    /\ tasks = EmptyBag /\ ~isProcessing /\ isFrozen
    /\ \E sp \in BagToSet(speeches) : sp.stage = "resuming"

\* ------------------------------------------------------------ camera streams
\* C23: no camera stream is leaked: every stream obtained from getUserMedia is
\* the one streamRef holds or has had its tracks stopped, so no live stream
\* exists that streamRef no longer holds.
C23_NoStreamLeaked == strayStreams = 0

\* C24: an active camera and a camera error never coexist: cameraActive
\* implies that cameraError is null and that streamRef holds a stream, and a
\* non-null cameraError implies that cameraActive is false.
C24_ActiveXorError ==
    /\ cameraActive => (cameraError = NoError /\ streamRef # "null")
    /\ cameraError # NoError => ~cameraActive

\* C25: in src/src/App.tsx, once one of the three getUserMedia attempts of
\* startCamera has succeeded (streamRef holds the acquired stream),
\* cameraActive eventually becomes true, so that the video element shows it.
C25_AcquiredStreamShown ==
    [](rev = "app" /\ streamRef = "stream" => <>cameraActive)


====
